---- MODULE Spec2Model ----
(***************************************************************************)
(* MCPMemoryClient: the HTTP JSON-RPC 2.0 client of the memory server.     *)
(*                                                                         *)
(* A JSON value is a record of one field, named after the Python type of   *)
(* the decoded value and holding its content.  A string is a sequence of   *)
(* one-character strings,                                                  *)
(* so that split, title and the substring test act on its characters.  A   *)
(* mapping is a sequence of <<key, value>> pairs with distinct keys, in    *)
(* insertion order, as a Python dict.                                      *)
(***************************************************************************)
EXTENDS Integers, Sequences, FiniteSets, TLC

VARIABLES
    request_id,   \* self._request_id
    sent,         \* ids of the envelopes handed to self._client.post, in order
    request,      \* the envelope of the last post
    arg,          \* the params argument of the last (or the pending) call
    args,         \* the arguments of the typed operation called last (or pending)
    event,        \* what the transport did with the last post
    outcome,      \* what the last call gave its caller
    prev_kind,    \* the kind of outcome of the call before the last one
    calls,        \* number of invocations so far
    op,           \* the operation invoked last
    pc,           \* per thread: its position inside _next_id / _call
    tmp,          \* per thread: the value loaded by `self._request_id += 1`
    ret,          \* per thread: the ids _next_id returned to it
    tools,        \* langchain_tools.MEMORY_TOOLS: the names of its tools, in order
    _base_url,    \* self._base_url
    _timeout,     \* self._timeout, in seconds
    is_closed,    \* self._client.is_closed: the httpx client has been closed
    closes,       \* number of calls of close() on this client
    scope,        \* "with" inside a `with MCPMemoryClient(...) as client:` block
    pending,      \* what was in flight when the with block was left
    http,         \* verb and URL of the last HTTP request
    _client,      \* langchain_tools._client: 0 for None, else the number of
                  \* the client it refers to, which the variables above describe
    others        \* is_closed of the clients configure_memory_client made before
                  \* that one, oldest first

(* what no call of an operation assigns *)
life == <<_base_url, _timeout, is_closed, closes, scope, pending, _client, others>>

vars == <<request_id, sent, request, arg, args, event, outcome, prev_kind,
          calls, op, pc, tmp, ret, tools, life, http>>

-----------------------------------------------------------------------------
(* Bounds *)

MaxCalls == 3
MaxDepth == 3
NThreads == 2
MaxThreadCalls == 2
MaxCloses == 2
MaxLifeCalls == 2
MaxToolCalls == 1
MaxConfigures == 3

-----------------------------------------------------------------------------
(* Characters and strings *)

Lows == <<"a","b","c","d","e","f","g","h","i","j","k","l","m",
          "n","o","p","q","r","s","t","u","v","w","x","y","z">>
Ups  == <<"A","B","C","D","E","F","G","H","I","J","K","L","M",
          "N","O","P","Q","R","S","T","U","V","W","X","Y","Z">>

IsLower(c) == \E i \in 1..26 : Lows[i] = c
IsUpper(c) == \E i \in 1..26 : Ups[i] = c
IsCased(c) == IsLower(c) \/ IsUpper(c)
upper(c) == IF IsLower(c) THEN Ups[CHOOSE i \in 1..26 : Lows[i] = c] ELSE c
lower(c) == IF IsUpper(c) THEN Lows[CHOOSE i \in 1..26 : Ups[i] = c] ELSE c

(* str.title(): a cased character is upper-cased when the character before *)
(* it is not cased, and lower-cased when it is.                            *)
RECURSIVE TitleFrom(_, _)
TitleFrom(s, prevCased) ==
    IF s = <<>> THEN <<>>
    ELSE <<IF prevCased THEN lower(Head(s)) ELSE upper(Head(s))>>
         \o TitleFrom(Tail(s), IsCased(Head(s)))

title(s) == TitleFrom(s, FALSE)

(* str.split(sep): the components between the separators, empty ones kept *)
RECURSIVE split(_, _)
split(s, sep) ==
    IF \A i \in 1..Len(s) : s[i] # sep THEN <<s>>
    ELSE LET i == CHOOSE j \in 1..Len(s) :
                      s[j] = sep /\ \A k \in 1..(j - 1) : s[k] # sep
         IN  <<SubSeq(s, 1, i - 1)>> \o split(SubSeq(s, i + 1, Len(s)), sep)

RECURSIVE join(_)
join(parts) == IF parts = <<>> THEN <<>> ELSE Head(parts) \o join(Tail(parts))

(* `needle in haystack` for two strings *)
Contains(haystack, needle) ==
    \E i \in 1..(Len(haystack) - Len(needle) + 1) :
        SubSeq(haystack, i, i + Len(needle) - 1) = needle

_to_camel_case(snake_str) ==
    LET components == split(snake_str, "_")
    IN  components[1]
        \o join([i \in 1..(Len(components) - 1) |-> title(components[i + 1])])

-----------------------------------------------------------------------------
(* String literals of the source *)

s_error    == <<"e","r","r","o","r">>
s_result   == <<"r","e","s","u","l","t">>
s_code     == <<"c","o","d","e">>
s_message  == <<"m","e","s","s","a","g","e">>
s_data     == <<"d","a","t","a">>
s_metadata == <<"m","e","t","a","d","a","t","a">>
s_value    == <<"v","a","l","u","e">>
s_unknown_error == <<"U","n","k","n","o","w","n"," ","e","r","r","o","r">>

(* caller-side argument names and their wire names *)
s_group_id   == <<"g","r","o","u","p","_","i","d">>
s_groupId    == <<"g","r","o","u","p","I","d">>
s_top_k      == <<"t","o","p","_","k">>
s_topK       == <<"t","o","p","K">>
s_created_at == <<"c","r","e","a","t","e","d","_","a","t">>
s_createdAt  == <<"c","r","e","a","t","e","d","A","t">>
s_base_url   == <<"b","a","s","e","_","u","r","l">>
s_baseUrl    == <<"b","a","s","e","U","r","l">>
s_api_key    == <<"a","p","i","_","k","e","y">>
s_apiKey     == <<"a","p","i","K","e","y">>

-----------------------------------------------------------------------------
(* JSON values *)

None      == [NoneType |-> TRUE]
JInt(n)   == [int  |-> n]
JBool(b)  == [bool |-> b]
JStr(s)   == [str  |-> s]
JList(xs) == [list |-> xs]
JDict(kv) == [dict |-> kv]

isinstance(x, type) == DOMAIN x = {type}

(* key in d *)
HasKey(d, k) == \E i \in 1..Len(d.dict) : d.dict[i][1] = k

(* d[key], for a key of d *)
Item(d, k) == d.dict[CHOOSE i \in 1..Len(d.dict) : d.dict[i][1] = k][2]

(* d.get(key, default) *)
Get(d, k, default) == IF HasKey(d, k) THEN Item(d, k) ELSE default

(* d[key] = value: replaces in place, or inserts at the end *)
SetItem(kv, k, x) ==
    IF \E i \in 1..Len(kv) : kv[i][1] = k
    THEN [i \in 1..Len(kv) |-> IF kv[i][1] = k THEN <<k, x>> ELSE kv[i]]
    ELSE Append(kv, <<k, x>>)

-----------------------------------------------------------------------------
(* Key transcoding *)

DefaultSkipKeys_metadata_only == {s_metadata}

DefaultSkipKeys == {s_metadata, s_value}

RECURSIVE _convert_keys_to_camel(_, _)
RECURSIVE ConvertItems(_, _, _)

(* one iteration's right-hand side: the value stored under camel_key *)
ConvertValue(key, value, skip_keys) ==
    IF key \in skip_keys
    THEN value
    ELSE IF isinstance(value, "dict")
    THEN _convert_keys_to_camel(value, skip_keys)
    ELSE IF isinstance(value, "list")
    THEN JList([i \in 1..Len(value.list) |->
                  IF isinstance(value.list[i], "dict")
                  THEN _convert_keys_to_camel(value.list[i], skip_keys)
                  ELSE value.list[i]])
    ELSE value

(* the loop `for key, value in data.items()` over the items left *)
ConvertItems(items, result, skip_keys) ==
    IF items = <<>> THEN result
    ELSE LET key   == Head(items)[1]
             value == Head(items)[2]
         IN  ConvertItems(Tail(items),
                          SetItem(result, _to_camel_case(key),
                                  ConvertValue(key, value, skip_keys)),
                          skip_keys)

_convert_keys_to_camel(data, skip_keys) ==
    JDict(ConvertItems(data.dict, <<>>, skip_keys))

data_after_conversion_in_place(data, skip_keys) ==
    IF isinstance(data, "dict") THEN _convert_keys_to_camel(data, skip_keys) ELSE data

(* the caller's data once _convert_keys_to_camel(data) has returned: the *)
(* function fills a new dict (and new lists) and only reads data        *)
data_after(data, skip_keys) == data

-----------------------------------------------------------------------------
(* The transport's events: what self._client.post does with one request.   *)
(* Either httpx raises (exc), or a response arrives with a status and a    *)
(* body; parses says whether the body is JSON text, body is its value.     *)

NoEvent == [type |-> "none", exc |-> "", status |-> 0, parses |-> FALSE, body |-> None]
Raise(exc) == [type |-> "raise", exc |-> exc, status |-> 0, parses |-> FALSE, body |-> None]
Reply(status, body) ==
    [type |-> "response", exc |-> "", status |-> status, parses |-> TRUE, body |-> body]
Garbage(status) ==
    [type |-> "response", exc |-> "", status |-> status, parses |-> FALSE, body |-> None]

(* the classes an httpx exception is an instance of *)
HttpxBases(exc) ==
    CASE exc = "ConnectError"        -> {"ConnectError", "NetworkError", "TransportError", "RequestError", "HTTPError"}
      [] exc = "ReadError"           -> {"ReadError", "NetworkError", "TransportError", "RequestError", "HTTPError"}
      [] exc = "WriteError"          -> {"WriteError", "NetworkError", "TransportError", "RequestError", "HTTPError"}
      [] exc = "ConnectTimeout"      -> {"ConnectTimeout", "TimeoutException", "TransportError", "RequestError", "HTTPError"}
      [] exc = "ReadTimeout"         -> {"ReadTimeout", "TimeoutException", "TransportError", "RequestError", "HTTPError"}
      [] exc = "WriteTimeout"        -> {"WriteTimeout", "TimeoutException", "TransportError", "RequestError", "HTTPError"}
      [] exc = "PoolTimeout"         -> {"PoolTimeout", "TimeoutException", "TransportError", "RequestError", "HTTPError"}
      [] exc = "RemoteProtocolError" -> {"RemoteProtocolError", "ProtocolError", "TransportError", "RequestError", "HTTPError"}
      [] exc = "HTTPStatusError"     -> {"HTTPStatusError", "HTTPError"}
      [] OTHER                       -> {exc}

raise_for_status_4xx_5xx(status) == status >= 400

(* response.raise_for_status() raises HTTPStatusError *)
raise_for_status(status) == ~(200 <= status /\ status <= 299)

-----------------------------------------------------------------------------
(* Outcomes: what a call gives its caller.  kind is the condition of the   *)
(* error taxonomy the caller observes, decided by the class of the         *)
(* exception that leaves the call; "untyped" is an exception that is not   *)
(* an MCPMemoryError.                                                      *)

NoOutcome ==
    [kind |-> "none", exc |-> "", code |-> None, message |-> None, data |-> None, result |-> None]

Return(result) ==
    [kind |-> "result", exc |-> "", code |-> None, message |-> None, data |-> None, result |-> result]

KindOf(cls) ==
    CASE cls = "ConnectionError" -> "connection"
      [] cls = "TimeoutError"    -> "timeout"
      [] cls = "RPCError"        -> "rpc"
      [] cls = "MCPMemoryError"  -> "generic"
      [] OTHER                   -> "untyped"

RaiseExc(cls) ==
    [kind |-> KindOf(cls), exc |-> cls, code |-> None, message |-> None, data |-> None, result |-> None]

RPCError(code, message, data) ==
    [kind |-> KindOf("RPCError"), exc |-> "RPCError",
     code |-> code, message |-> message, data |-> data, result |-> None]

Unmarshal_checks_id(data) ==
    IF isinstance(data, "dict")
    THEN IF HasKey(data, <<"i","d">>) /\ Item(data, <<"i","d">>) # JInt(request_id + 1)
         THEN RaiseExc("MCPMemoryError")
         ELSE IF HasKey(data, s_error)
         THEN LET error == Item(data, s_error)
              IN  IF isinstance(error, "dict")
                  THEN RPCError(Get(error, s_code, JInt(-32603)),
                                Get(error, s_message, JStr(s_unknown_error)),
                                Get(error, s_data, None))
                  ELSE RaiseExc("AttributeError")
         ELSE Return(Get(data, s_result, None))
    ELSE RaiseExc("TypeError")

(* `"error" in data` and what follows it *)
Unmarshal(data) ==
    IF isinstance(data, "dict")
    THEN IF HasKey(data, s_error)
         THEN LET error == Item(data, s_error)
              IN  IF isinstance(error, "dict")
                  THEN RPCError(Get(error, s_code, JInt(-32603)),
                                Get(error, s_message, JStr(s_unknown_error)),
                                Get(error, s_data, None))
                  ELSE RaiseExc("AttributeError")      \* error.get
         ELSE Return(Get(data, s_result, None))
    ELSE IF isinstance(data, "list")
    THEN IF \E i \in 1..Len(data.list) : data.list[i] = JStr(s_error)
         THEN RaiseExc("TypeError")                    \* data["error"]
         ELSE RaiseExc("AttributeError")               \* data.get
    ELSE IF isinstance(data, "str")
    THEN IF Contains(data.str, s_error)
         THEN RaiseExc("TypeError")                    \* data["error"]
         ELSE RaiseExc("AttributeError")               \* data.get
    ELSE RaiseExc("TypeError")                         \* "error" in data

Response_connect_phase(ev) ==
    LET raised == IF ev.type = "raise" THEN ev.exc
                  ELSE IF raise_for_status(ev.status) THEN "HTTPStatusError"
                  ELSE ""
    IN  IF raised # ""
        THEN IF "ConnectError" \in HttpxBases(raised) \/ raised = "ConnectTimeout"
             THEN RaiseExc("ConnectionError")
             ELSE IF "TimeoutException" \in HttpxBases(raised) THEN RaiseExc("TimeoutError")
             ELSE IF "HTTPStatusError" \in HttpxBases(raised) THEN RaiseExc("MCPMemoryError")
             ELSE RaiseExc(raised)
        ELSE IF ~ev.parses
        THEN RaiseExc("MCPMemoryError")
        ELSE Unmarshal(ev.body)

(* the try block around post and raise_for_status, then response.json() *)
Response(ev) ==
    LET raised == IF ev.type = "raise" THEN ev.exc
                  ELSE IF raise_for_status(ev.status) THEN "HTTPStatusError"
                  ELSE ""
    IN  IF raised # ""
        THEN IF "ConnectError" \in HttpxBases(raised) THEN RaiseExc("ConnectionError")
             ELSE IF "TimeoutException" \in HttpxBases(raised) THEN RaiseExc("TimeoutError")
             ELSE IF "HTTPStatusError" \in HttpxBases(raised) THEN RaiseExc("MCPMemoryError")
             ELSE RaiseExc(raised)
        ELSE IF ~ev.parses
        THEN RaiseExc("MCPMemoryError")
        ELSE Unmarshal(ev.body)

-----------------------------------------------------------------------------
(* The transport primitive *)

_next_id_returns_old(self_request_id) ==
    [request_id |-> self_request_id + 1, ret |-> self_request_id]

_next_id(self_request_id) ==
    [request_id |-> self_request_id + 1, ret |-> self_request_id + 1]

NoRequest == [sent |-> FALSE]

request_body_null_params(id, method, params) ==
    [jsonrpc |-> "2.0", id |-> id, method |-> method,
     params |-> IF params # None
                THEN _convert_keys_to_camel(params, DefaultSkipKeys)
                ELSE None]

request_body(id, method, params) ==
    IF params # None
    THEN [jsonrpc |-> "2.0", id |-> id, method |-> method,
          params |-> _convert_keys_to_camel(params, DefaultSkipKeys)]
    ELSE [jsonrpc |-> "2.0", id |-> id, method |-> method]

post_retry_once(log, body, ev) ==
    [sent  |-> IF ev.type = "raise" THEN Append(Append(log, body.id), body.id)
               ELSE Append(log, body.id),
     event |-> ev]

(* self._client.post(url, json=request_body): the request goes out once; *)
(* a closed httpx client raises RuntimeError and sends nothing            *)
post(log, body, ev) ==
    IF is_closed THEN [sent |-> log, event |-> Raise("RuntimeError")]
    ELSE [sent |-> Append(log, body.id), event |-> ev]

(* the effects of _call(method, params) when the transport answers ev *)
_call_gives_up_after_failure(method, params, ev) ==
    LET nid    == _next_id(request_id)
        body   == request_body(nid.ret, method, params)
        posted == IF outcome.kind \in {"connection", "timeout"}
                  THEN [sent |-> sent, event |-> Raise("ConnectError")]
                  ELSE post(sent, body, ev)
    IN  [request_id |-> nid.request_id,
         sent       |-> posted.sent,
         request    |-> body,
         outcome    |-> Response(posted.event)]

_call(method, params, ev) ==
    LET nid    == _next_id(request_id)
        body   == request_body(nid.ret, method, params)
        posted == post(sent, body, ev)
    IN  [request_id |-> nid.request_id,
         sent       |-> posted.sent,
         request    |-> body,
         outcome    |-> Response(posted.event)]

-----------------------------------------------------------------------------
(* ConfigResult and its validation (models.py) *)

s_transportDefaults  == <<"t","r","a","n","s","p","o","r","t","D","e","f","a","u","l","t","s">>
s_transport_defaults == <<"t","r","a","n","s","p","o","r","t","_","d","e","f","a","u","l","t","s">>
s_defaultTransport   == <<"d","e","f","a","u","l","t","T","r","a","n","s","p","o","r","t">>
s_default_transport  == <<"d","e","f","a","u","l","t","_","t","r","a","n","s","p","o","r","t">>
s_embedder   == <<"e","m","b","e","d","d","e","r">>
s_provider   == <<"p","r","o","v","i","d","e","r">>
s_model      == <<"m","o","d","e","l">>
s_dim        == <<"d","i","m">>
s_store      == <<"s","t","o","r","e">>
s_type       == <<"t","y","p","e">>
s_path       == <<"p","a","t","h">>
s_url        == <<"u","r","l">>
s_paths      == <<"p","a","t","h","s">>
s_configPath == <<"c","o","n","f","i","g","P","a","t","h">>
s_config_path == <<"c","o","n","f","i","g","_","p","a","t","h">>
s_dataDir    == <<"d","a","t","a","D","i","r">>
s_data_dir   == <<"d","a","t","a","_","d","i","r">>

(* a field declared with an alias, populate_by_name = True: the alias is   *)
(* looked up first, then the field's name                                  *)
HasField(d, alias, name) == HasKey(d, alias) \/ HasKey(d, name)
Field(d, alias, name) == IF HasKey(d, alias) THEN Item(d, alias) ELSE Item(d, name)

Required(d, alias, name, type) ==
    HasField(d, alias, name) /\ isinstance(Field(d, alias, name), type)

Optional(d, alias, name, type) ==
    HasField(d, alias, name) =>
        (isinstance(Field(d, alias, name), type) \/ Field(d, alias, name) = None)

ValidTransportDefaults(x) ==
    isinstance(x, "dict") /\ Required(x, s_defaultTransport, s_default_transport, "str")

ValidEmbedderConfig(x) ==
    /\ isinstance(x, "dict")
    /\ Required(x, s_provider, s_provider, "str")
    /\ Required(x, s_model, s_model, "str")
    /\ Required(x, s_dim, s_dim, "int")
    /\ Optional(x, s_baseUrl, s_base_url, "str")

ValidStoreConfig(x) ==
    /\ isinstance(x, "dict")
    /\ Required(x, s_type, s_type, "str")
    /\ Optional(x, s_path, s_path, "str")
    /\ Optional(x, s_url, s_url, "str")

ValidPathsConfig(x) ==
    /\ isinstance(x, "dict")
    /\ Required(x, s_configPath, s_config_path, "str")
    /\ Required(x, s_dataDir, s_data_dir, "str")

ValidConfigResult(x) ==
    /\ isinstance(x, "dict")
    /\ HasField(x, s_transportDefaults, s_transport_defaults)
    /\ ValidTransportDefaults(Field(x, s_transportDefaults, s_transport_defaults))
    /\ HasKey(x, s_embedder) /\ ValidEmbedderConfig(Item(x, s_embedder))
    /\ HasKey(x, s_store) /\ ValidStoreConfig(Item(x, s_store))
    /\ HasKey(x, s_paths) /\ ValidPathsConfig(Item(x, s_paths))

(* ConfigResult.model_validate(result), on what _call gave *)
DecodeConfig(out) ==
    IF out.kind # "result" THEN out
    ELSE IF ValidConfigResult(out.result) THEN out
    ELSE RaiseExc("ValidationError")

-----------------------------------------------------------------------------
(* The predicates of RPCError, on an RPCError e *)

is_invalid_params(e) == e.code = JInt(-32602)

is_method_not_found(e) == e.code = JInt(-32601)

is_not_found_as_api_key(e) == e.code = JInt(-32002)

is_not_found(e) == e.code = JInt(-32001)

is_api_key_missing(e) == e.code = JInt(-32002)

is_invalid_key_prefix(e) == e.code = JInt(-32003)

(* every property of RPCError that is a predicate, evaluated on e *)
Predicates(e) ==
    [is_invalid_params     |-> is_invalid_params(e),
     is_method_not_found   |-> is_method_not_found(e),
     is_not_found          |-> is_not_found(e),
     is_api_key_missing    |-> is_api_key_missing(e),
     is_invalid_key_prefix |-> is_invalid_key_prefix(e)]

-----------------------------------------------------------------------------
(* The typed operations: arguments *)

s_project_id == <<"p","r","o","j","e","c","t","_","i","d">>
s_projectId == <<"p","r","o","j","e","c","t","I","d">>
s_text == <<"t","e","x","t">>
s_title == <<"t","i","t","l","e">>
s_tags == <<"t","a","g","s">>
s_source == <<"s","o","u","r","c","e">>
s_query == <<"q","u","e","r","y">>
s_since == <<"s","i","n","c","e">>
s_until == <<"u","n","t","i","l">>
s_id == <<"i","d">>
s_patch == <<"p","a","t","c","h">>
s_limit == <<"l","i","m","i","t">>
s_key == <<"k","e","y">>
s_updated_at == <<"u","p","d","a","t","e","d","_","a","t">>
s_updatedAt == <<"u","p","d","a","t","e","d","A","t">>
s_namespace == <<"n","a","m","e","s","p","a","c","e">>
s_score == <<"s","c","o","r","e">>
s_found == <<"f","o","u","n","d">>
s_results == <<"r","e","s","u","l","t","s">>
s_items == <<"i","t","e","m","s">>
s_global_x == <<"g","l","o","b","a","l",".","x">>
s_invalid_key == <<"i","n","v","a","l","i","d",".","k","e","y">>

(* a keyword argument the caller left out; the signature's default binds *)
Omitted == [omitted |-> TRUE]
NoArgs  == [no_args |-> TRUE]

Default(x, default) == IF x = Omitted THEN default ELSE x

(* a datetime.datetime: naive, or aware with a fixed offset of whole hours *)
Naive == [aware |-> FALSE, hours |-> 0]
Aware(h) == [aware |-> TRUE, hours |-> h]

datetime(day, hour, tzinfo) ==
    [datetime |-> [year |-> 2024, month |-> 1, day |-> day,
                   hour |-> hour, minute |-> 0, second |-> 0, tzinfo |-> tzinfo]]

Digits == <<"0","1","2","3","4","5","6","7","8","9">>

(* n in decimal, zero-padded to width characters *)
RECURSIVE Pad(_, _)
Pad(n, width) ==
    IF width = 0 THEN <<>>
    ELSE Append(Pad(n \div 10, width - 1), Digits[(n % 10) + 1])

(* dt.strftime("%Y-%m-%dT%H:%M:%SZ"): the fields of dt as they are, and a *)
(* literal Z; the offset of dt is not looked at                           *)
strftime(dt) ==
    Pad(dt.year, 4) \o <<"-">> \o Pad(dt.month, 2) \o <<"-">> \o Pad(dt.day, 2)
    \o <<"T">> \o Pad(dt.hour, 2) \o <<":">> \o Pad(dt.minute, 2)
    \o <<":">> \o Pad(dt.second, 2) \o <<"Z">>

_format_datetime(dt) ==
    IF dt = None THEN None
    ELSE IF isinstance(dt, "str") THEN dt
    ELSE JStr(strftime(dt.datetime))

SetIfGiven_always(kv, k, x) == SetItem(kv, k, x)

(* if x is not None: d[k] = x *)
SetIfGiven(kv, k, x) == IF x # None THEN SetItem(kv, k, x) ELSE kv

add_note_params(a) ==
    LET p0 == << <<s_project_id, a.project_id>>, <<s_group_id, a.group_id>>,
                 <<s_text, a.text>> >>
        p1 == SetIfGiven(p0, s_title, a.title)
        p2 == SetIfGiven(p1, s_tags, a.tags)
        p3 == SetIfGiven(p2, s_source, a.source)
        p4 == SetIfGiven(p3, s_created_at, _format_datetime(a.created_at))
        p5 == SetIfGiven(p4, s_metadata, a.metadata)
    IN  JDict(p5)

search_top_k_default == 5

search_params_top_k_when_given(a) ==
    LET p0 == << <<s_project_id, a.project_id>>, <<s_query, a.query>> >>
        p1 == IF a.top_k # Omitted THEN SetItem(p0, s_top_k, a.top_k) ELSE p0
        p2 == SetIfGiven(p1, s_group_id, a.group_id)
        p3 == SetIfGiven(p2, s_tags, a.tags)
        p4 == SetIfGiven(p3, s_since, _format_datetime(a.since))
        p5 == SetIfGiven(p4, s_until, _format_datetime(a.until))
    IN  JDict(p5)

search_params(a) ==
    LET top_k == Default(a.top_k, JInt(search_top_k_default))
        p0 == << <<s_project_id, a.project_id>>, <<s_query, a.query>>,
                 <<s_top_k, top_k>> >>
        p1 == SetIfGiven(p0, s_group_id, a.group_id)
        p2 == SetIfGiven(p1, s_tags, a.tags)
        p3 == SetIfGiven(p2, s_since, _format_datetime(a.since))
        p4 == SetIfGiven(p3, s_until, _format_datetime(a.until))
    IN  JDict(p4)

update_params_flat(a) ==
    LET p0 == << <<s_id, a.note_id>> >>
        p1 == SetIfGiven(p0, s_title, a.title)
        p2 == SetIfGiven(p1, s_text, a.text)
        p3 == SetIfGiven(p2, s_tags, a.tags)
        p4 == SetIfGiven(p3, s_source, a.source)
        p5 == SetIfGiven(p4, s_group_id, a.group_id)
        p6 == SetIfGiven(p5, s_metadata, a.metadata)
    IN  JDict(p6)

update_params(a) ==
    LET p1 == SetIfGiven(<<>>, s_title, a.title)
        p2 == SetIfGiven(p1, s_text, a.text)
        p3 == SetIfGiven(p2, s_tags, a.tags)
        p4 == SetIfGiven(p3, s_source, a.source)
        p5 == SetIfGiven(p4, s_group_id, a.group_id)
        p6 == SetIfGiven(p5, s_metadata, a.metadata)
    IN  JDict(<< <<s_id, a.note_id>>, <<s_patch, JDict(p6)>> >>)

list_recent_params(a) ==
    LET p0 == << <<s_project_id, a.project_id>> >>
        p1 == SetIfGiven(p0, s_group_id, a.group_id)
        p2 == SetIfGiven(p1, s_limit, a.limit)
        p3 == SetIfGiven(p2, s_tags, a.tags)
    IN  JDict(p3)

set_config_params_flat(a) ==
    LET p1 == SetIfGiven(<<>>, s_provider, a.provider)
        p2 == SetIfGiven(p1, s_model, a.model)
        p3 == SetIfGiven(p2, s_base_url, a.base_url)
        p4 == SetIfGiven(p3, s_api_key, a.api_key)
    IN  JDict(p4)

set_config_params(a) ==
    LET p1 == SetIfGiven(<<>>, s_provider, a.provider)
        p2 == SetIfGiven(p1, s_model, a.model)
        p3 == SetIfGiven(p2, s_base_url, a.base_url)
        p4 == SetIfGiven(p3, s_api_key, a.api_key)
    IN  JDict(<< <<s_embedder, JDict(p4)>> >>)

upsert_global_params(a) ==
    LET p0 == << <<s_project_id, a.project_id>>, <<s_key, a.key>>,
                 <<s_value, a.value>> >>
        p1 == SetIfGiven(p0, s_updated_at, _format_datetime(a.updated_at))
    IN  JDict(p1)

get_params(a) == JDict(<< <<s_id, a.note_id>> >>)

get_global_params(a) ==
    JDict(<< <<s_project_id, a.project_id>>, <<s_key, a.key>> >>)

-----------------------------------------------------------------------------
(* The typed operations: decoding the result *)

FieldOr(d, alias, name, default) ==
    IF HasField(d, alias, name) THEN Field(d, alias, name) ELSE default

ListOf(x, type) ==
    isinstance(x, "list") /\ \A i \in 1..Len(x.list) : isinstance(x.list[i], type)

ValidNote(x) ==
    /\ isinstance(x, "dict")
    /\ Required(x, s_id, s_id, "str")
    /\ Required(x, s_projectId, s_project_id, "str")
    /\ Required(x, s_groupId, s_group_id, "str")
    /\ Optional(x, s_title, s_title, "str")
    /\ Required(x, s_text, s_text, "str")
    /\ HasKey(x, s_tags) => ListOf(Item(x, s_tags), "str")
    /\ Optional(x, s_source, s_source, "str")
    /\ Required(x, s_createdAt, s_created_at, "str")
    /\ Optional(x, s_namespace, s_namespace, "str")
    /\ Optional(x, s_score, s_score, "int")
    /\ Optional(x, s_metadata, s_metadata, "dict")

(* the Note built from a valid x: fields by name, defaults filled in *)
Note(x) ==
    JDict(<< <<s_id, Item(x, s_id)>>,
             <<s_project_id, Field(x, s_projectId, s_project_id)>>,
             <<s_group_id, Field(x, s_groupId, s_group_id)>>,
             <<s_title, Get(x, s_title, None)>>,
             <<s_text, Item(x, s_text)>>,
             <<s_tags, Get(x, s_tags, JList(<<>>))>>,
             <<s_source, Get(x, s_source, None)>>,
             <<s_created_at, Field(x, s_createdAt, s_created_at)>>,
             <<s_namespace, Get(x, s_namespace, None)>>,
             <<s_score, Get(x, s_score, None)>>,
             <<s_metadata, Get(x, s_metadata, None)>> >>)

(* Note.model_validate(result) *)
DecodeNote(out) ==
    IF out.kind # "result" THEN out
    ELSE IF ValidNote(out.result) THEN Return(Note(out.result))
    ELSE RaiseExc("ValidationError")

(* what `for n in xs` yields *)
Iterate(xs) ==
    IF isinstance(xs, "list") THEN xs.list
    ELSE IF isinstance(xs, "dict") THEN [i \in 1..Len(xs.dict) |-> JStr(xs.dict[i][1])]
    ELSE [i \in 1..Len(xs.str) |-> JStr(<<xs.str[i]>>)]

DecodeNotes_newest_last(out, member) ==
    IF out.kind # "result" THEN out
    ELSE LET result == out.result
         IN  IF ~isinstance(result, "dict") THEN RaiseExc("TypeError")
             ELSE IF ~HasKey(result, s_namespace) THEN RaiseExc("KeyError")
             ELSE LET xs == Get(result, member, JList(<<>>))
                  IN  IF ~(isinstance(xs, "list") \/ isinstance(xs, "dict")
                                                  \/ isinstance(xs, "str"))
                      THEN RaiseExc("TypeError")
                      ELSE LET ns == Iterate(xs)
                           IN  IF /\ \A i \in 1..Len(ns) : ValidNote(ns[i])
                                  /\ isinstance(Item(result, s_namespace), "str")
                               THEN Return(JDict(
                                      << <<s_namespace, Item(result, s_namespace)>>,
                                         <<member, JList([i \in 1..Len(ns) |-> Note(ns[Len(ns) + 1 - i])])>> >>))
                               ELSE RaiseExc("ValidationError")

(* Result(namespace=result["namespace"],                                   *)
(*        member=[Note.model_validate(n) for n in result.get(member, [])]) *)
DecodeNotes(out, member) ==
    IF out.kind # "result" THEN out
    ELSE LET result == out.result
         IN  IF ~isinstance(result, "dict") THEN RaiseExc("TypeError")
             ELSE IF ~HasKey(result, s_namespace) THEN RaiseExc("KeyError")
             ELSE LET xs == Get(result, member, JList(<<>>))
                  IN  IF ~(isinstance(xs, "list") \/ isinstance(xs, "dict")
                                                  \/ isinstance(xs, "str"))
                      THEN RaiseExc("TypeError")
                      ELSE LET ns == Iterate(xs)
                           IN  IF /\ \A i \in 1..Len(ns) : ValidNote(ns[i])
                                  /\ isinstance(Item(result, s_namespace), "str")
                               THEN Return(JDict(
                                      << <<s_namespace, Item(result, s_namespace)>>,
                                         <<member, JList([i \in 1..Len(ns) |-> Note(ns[i])])>> >>))
                               ELSE RaiseExc("ValidationError")

(* found: bool takes a bool, and the integers 0 and 1 *)
ValidBool(x) == isinstance(x, "bool") \/ x \in {JInt(0), JInt(1)}
ToBool(x) == IF isinstance(x, "bool") THEN x ELSE JBool(x = JInt(1))

ValidGlobalValue(x) ==
    /\ isinstance(x, "dict")
    /\ Required(x, s_namespace, s_namespace, "str")
    /\ HasKey(x, s_found) /\ ValidBool(Item(x, s_found))
    /\ Optional(x, s_id, s_id, "str")
    /\ Optional(x, s_updatedAt, s_updated_at, "str")

GlobalValue(x) ==
    JDict(<< <<s_namespace, Item(x, s_namespace)>>,
             <<s_found, ToBool(Item(x, s_found))>>,
             <<s_id, Get(x, s_id, None)>>,
             <<s_value, Get(x, s_value, None)>>,
             <<s_updated_at, FieldOr(x, s_updatedAt, s_updated_at, None)>> >>)

(* GlobalValue.model_validate(result) *)
DecodeGlobalValue(out) ==
    IF out.kind # "result" THEN out
    ELSE IF ValidGlobalValue(out.result) THEN Return(GlobalValue(out.result))
    ELSE RaiseExc("ValidationError")

-----------------------------------------------------------------------------
(* The tool adapter: the names of the tools in MEMORY_TOOLS, in order *)

MEMORY_TOOLS ==
    <<"memory_search", "memory_add_note", "memory_get_note", "memory_list_recent",
      "memory_upsert_global", "memory_get_global">>

-----------------------------------------------------------------------------
(* Construction *)

s_default_base_url ==
    <<"h","t","t","p",":","/","/","l","o","c","a","l","h","o","s","t",":","8","7","6","5">>

default_timeout == 30

(* str.rstrip("/") *)
RECURSIVE rstrip(_)
rstrip(str) ==
    IF str # <<>> /\ str[Len(str)] = "/" THEN rstrip(SubSeq(str, 1, Len(str) - 1))
    ELSE str

__init___strips_one_slash(base_url, timeout) ==
    LET given == Default(base_url, JStr(s_default_base_url)).str
    IN  [_base_url   |-> IF given # <<>> /\ given[Len(given)] = "/"
                         THEN SubSeq(given, 1, Len(given) - 1) ELSE given,
         _timeout    |-> Default(timeout, JInt(default_timeout)).int,
         is_closed   |-> FALSE,
         _request_id |-> 0]

(* the attributes MCPMemoryClient.__init__(base_url, timeout) sets *)
__init__(base_url, timeout) ==
    [_base_url   |-> rstrip(Default(base_url, JStr(s_default_base_url)).str),
     _timeout    |-> Default(timeout, JInt(default_timeout)).int,
     is_closed   |-> FALSE,
     _request_id |-> 0]

(* f"{self._base_url}/rpc" *)
rpc_url(base_url) == base_url \o <<"/","r","p","c">>

NoHttp == [verb |-> "", url |-> <<>>]

(* the client as MCPMemoryClient(base_url, timeout) leaves it *)
Constructed(base_url, timeout) ==
    LET self == __init__(base_url, timeout)
    IN  /\ _base_url = self._base_url
        /\ _timeout = self._timeout
        /\ is_closed = self.is_closed
        /\ closes = 0
        /\ scope = "none"
        /\ pending = NoOutcome
        /\ http = NoHttp

-----------------------------------------------------------------------------
(* Inputs *)

Threads == 1..NThreads

s_stdio == <<"s","t","d","i","o">>
s_boom  == <<"b","o","o","m">>
s_ok    == <<"o","k">>
s_x     == <<"x">>

SampleConfig ==
    JDict(<< <<s_transportDefaults, JDict(<< <<s_defaultTransport, JStr(s_stdio)>> >>)>>,
             <<s_embedder, JDict(<< <<s_provider, JStr(s_x)>>, <<s_model, JStr(s_x)>>,
                                    <<s_dim, JInt(8)>>, <<s_baseUrl, None>> >>)>>,
             <<s_store, JDict(<< <<s_type, JStr(s_x)>>, <<s_path, None>> >>)>>,
             <<s_paths, JDict(<< <<s_configPath, JStr(s_x)>>, <<s_dataDir, JStr(s_x)>> >>)>> >>)

(* an optional member: no pair, or one pair *)
Member(k, values) == {<<>>} \cup {<< <<k, x>> >> : x \in values}

ErrorObjects ==
    {JDict(c \o m \o d) :
        c \in Member(s_code, {JInt(-32003)}),
        m \in Member(s_message, {JStr(s_boom)}),
        d \in Member(s_data, {JInt(7)})}

(* the values of an `error` member: objects, and values that are none *)
ErrorValues == ErrorObjects \cup {None, JStr(s_boom)}

Bodies ==
    {JDict(r) : r \in Member(s_result, {None, JInt(1), SampleConfig})}
    \cup {JDict(<< <<s_error, e>> >> \o r) :
            e \in ErrorValues, r \in Member(s_result, {JInt(1)})}
    \cup {None, JInt(0), JBool(TRUE), JStr(s_ok), JStr(s_error),
          JList(<<>>), JList(<<JStr(s_error)>>)}

ErrorEnvelope ==
    JDict(<< <<s_error, JDict(<< <<s_code, JInt(-32003)>>, <<s_message, JStr(s_boom)>> >>)>> >>)

Events ==
    {Raise(e) : e \in {"ConnectError", "ConnectTimeout", "ReadTimeout",
                       "ReadError", "RemoteProtocolError"}}
    \cup {Reply(200, b) : b \in Bodies}
    \cup {Reply(201, JDict(<< <<s_result, JInt(1)>> >>))}
    \cup {Garbage(st) : st \in {200, 204, 404}}
    \cup {Reply(st, b) : st \in {302, 404, 500},
                         b \in {ErrorEnvelope, JDict(<< <<s_result, JInt(1)>> >>)}}

RawParams ==
    {None, JDict(<<>>), JDict(<< <<s_group_id, JStr(s_x)>>, <<s_metadata, JDict(<< <<s_group_id, JInt(1)>> >>)>> >>)}

-----------------------------------------------------------------------------
(* The state machine *)

Init ==
    /\ request_id = 0
    /\ sent = <<>>
    /\ request = NoRequest
    /\ arg = None
    /\ args = NoArgs
    /\ event = NoEvent
    /\ outcome = NoOutcome
    /\ prev_kind = "none"
    /\ calls = 0
    /\ op = "none"
    /\ pc = [t \in Threads |-> "idle"]
    /\ tmp = [t \in Threads |-> 0]
    /\ ret = [t \in Threads |-> <<>>]
    /\ tools = MEMORY_TOOLS
    /\ Constructed(Omitted, Omitted)
    /\ _client = 0
    /\ others = <<>>

(* one invocation by the single caller: r is what _call did, out is what   *)
(* the operation gives its caller                                          *)
Invoke(name, a, params, ev, r, out) ==
    /\ calls < MaxCalls
    /\ request_id' = r.request_id
    /\ sent' = r.sent
    /\ request' = r.request
    /\ arg' = data_after(params, DefaultSkipKeys)
    /\ args' = a
    /\ event' = ev
    /\ outcome' = out
    /\ prev_kind' = outcome.kind
    /\ calls' = calls + 1
    /\ op' = name
    /\ http' = IF r.sent # sent THEN [verb |-> "POST", url |-> rpc_url(_base_url)] ELSE http
    /\ UNCHANGED <<pc, tmp, ret, tools, life>>

(* client._call(method, params) called directly *)
CallRaw ==
    \E params \in RawParams, ev \in Events :
        LET r == _call("memory.get", params, ev)
        IN  Invoke("_call", NoArgs, params, ev, r, r.outcome)

get_config ==
    \E ev \in Events :
        LET r == _call("memory.get_config", None, ev)
        IN  Invoke("get_config", NoArgs, None, ev, r, DecodeConfig(r.outcome))

add_note(a, ev) ==
    LET params == add_note_params(a)
        r == _call("memory.add_note", params, ev)
    IN  Invoke("add_note", a, params, ev, r, r.outcome)

search(a, ev) ==
    LET params == search_params(a)
        r == _call("memory.search", params, ev)
    IN  Invoke("search", a, params, ev, r, DecodeNotes(r.outcome, s_results))

get(a, ev) ==
    LET params == get_params(a)
        r == _call("memory.get", params, ev)
    IN  Invoke("get", a, params, ev, r, DecodeNote(r.outcome))

update(a, ev) ==
    LET params == update_params(a)
        r == _call("memory.update", params, ev)
    IN  Invoke("update", a, params, ev, r, r.outcome)

list_recent(a, ev) ==
    LET params == list_recent_params(a)
        r == _call("memory.list_recent", params, ev)
    IN  Invoke("list_recent", a, params, ev, r, DecodeNotes(r.outcome, s_items))

set_config(a, ev) ==
    LET params == set_config_params(a)
        r == _call("memory.set_config", params, ev)
    IN  Invoke("set_config", a, params, ev, r, r.outcome)

upsert_global_prevalidate(a, ev) ==
    LET params == upsert_global_params(a)
        r == _call("memory.upsert_global", params, ev)
        prefix == <<"g","l","o","b","a","l",".">>
    IN  IF Len(a.key.str) >= Len(prefix) /\ SubSeq(a.key.str, 1, Len(prefix)) = prefix
        THEN Invoke("upsert_global", a, params, ev, r, r.outcome)
        ELSE Invoke("upsert_global", a, params, NoEvent,
                    [request_id |-> request_id, sent |-> sent, request |-> request],
                    RaiseExc("ValueError"))

upsert_global(a, ev) ==
    LET params == upsert_global_params(a)
        r == _call("memory.upsert_global", params, ev)
    IN  Invoke("upsert_global", a, params, ev, r, r.outcome)

get_global(a, ev) ==
    LET params == get_global_params(a)
        r == _call("memory.get_global", params, ev)
    IN  Invoke("get_global", a, params, ev, r, DecodeGlobalValue(r.outcome))

(* the operation called name, on arguments a *)
Perform(name, a, ev) ==
    \/ name = "add_note" /\ add_note(a, ev)
    \/ name = "search" /\ search(a, ev)
    \/ name = "get" /\ get(a, ev)
    \/ name = "update" /\ update(a, ev)
    \/ name = "list_recent" /\ list_recent(a, ev)
    \/ name = "set_config" /\ set_config(a, ev)
    \/ name = "upsert_global" /\ upsert_global(a, ev)
    \/ name = "get_global" /\ get_global(a, ev)

(* Argument values *)

Str == {JStr(s_x)}
Tags == {JList(<<JStr(s_x)>>)}
Dicts == {JDict(<< <<s_group_id, JInt(1)>> >>)}
Keys == {JStr(s_global_x), JStr(s_invalid_key)}
DateTimes ==
    {datetime(10, h, tz) : h \in {0, 20}, tz \in {Naive, Aware(0), Aware(9), Aware(-5)}}
Opt(S) == {None} \cup S

Invocations(S, T, D, W, K, N) ==
    {[op |-> "add_note",
      args |-> [project_id |-> JStr(s_x), group_id |-> JStr(s_x), text |-> JStr(s_x),
                title |-> x_title, tags |-> x_tags, source |-> x_source,
                created_at |-> x_created_at, metadata |-> x_metadata]] :
        x_title \in S, x_tags \in T, x_source \in S, x_created_at \in W, x_metadata \in D}
    \cup
    {[op |-> "search",
      args |-> [project_id |-> JStr(s_x), query |-> JStr(s_x), group_id |-> x_group_id,
                top_k |-> x_top_k, tags |-> x_tags, since |-> x_since, until |-> x_until]] :
        x_group_id \in S, x_top_k \in N, x_tags \in T,
        x_since \in W \cap {None, JStr(s_x), datetime(10, 0, Aware(9))},
        x_until \in W \cap {None, datetime(10, 0, Aware(9)), datetime(10, 20, Aware(-5))}}
    \cup
    {[op |-> "get", args |-> [note_id |-> JStr(s_x)]]}
    \cup
    {[op |-> "update",
      args |-> [note_id |-> JStr(s_x), title |-> x_title, text |-> x_text, tags |-> x_tags,
                source |-> x_source, group_id |-> x_group_id, metadata |-> x_metadata]] :
        x_title \in S, x_text \in S, x_tags \in T, x_source \in S, x_group_id \in S,
        x_metadata \in D}
    \cup
    {[op |-> "list_recent",
      args |-> [project_id |-> JStr(s_x), group_id |-> x_group_id, limit |-> x_limit,
                tags |-> x_tags]] :
        x_group_id \in S, x_limit \in (N \ {Omitted}) \cup ({None} \cap S), x_tags \in T}
    \cup
    {[op |-> "set_config",
      args |-> [provider |-> x_provider, model |-> x_model, base_url |-> x_base_url,
                api_key |-> x_api_key]] :
        x_provider \in S, x_model \in S, x_base_url \in S, x_api_key \in S}
    \cup
    {[op |-> "upsert_global",
      args |-> [project_id |-> JStr(s_x), key |-> x_key, value |-> x_value,
                updated_at |-> x_updated_at]] :
        x_key \in K, x_value \in Opt(D) \cup {JInt(1)}, x_updated_at \in W}
    \cup
    {[op |-> "get_global", args |-> [project_id |-> JStr(s_x), key |-> x_key]] :
        x_key \in K}

(* every operation, each optional argument given or not *)
AllInvocations ==
    Invocations(Opt(Str), Opt(Tags), Opt(Dicts), Opt(Str) \cup DateTimes, Keys,
                {Omitted, JInt(0), JInt(-1), JInt(5), JInt(1000)})

(* every operation once, all its arguments given *)
FewInvocations ==
    Invocations(Str, Tags, Dicts, {datetime(10, 0, Aware(9))}, {JStr(s_invalid_key)},
                {JInt(10)})

SampleNote ==
    JDict(<< <<s_id, JStr(s_x)>>, <<s_projectId, JStr(s_x)>>, <<s_groupId, JStr(s_x)>>,
             <<s_text, JStr(s_x)>>, <<s_createdAt, JStr(s_x)>> >>)

(* notes that differ in their id *)
SampleNotes ==
    {JDict(<< <<s_id, JStr(i)>>, <<s_projectId, JStr(s_x)>>, <<s_groupId, JStr(s_x)>>,
              <<s_text, JStr(s_x)>>, <<s_createdAt, JStr(s_x)>> >>) : i \in {s_x, s_ok}}

GlobalValues ==
    {JDict(<< <<s_namespace, JStr(s_x)>>, <<s_found, JBool(f)>> >> \o i \o v \o u) :
        f \in BOOLEAN,
        i \in Member(s_id, {JStr(s_x)}),
        v \in Member(s_value, {JInt(1)}),
        u \in Member(s_updatedAt, {JStr(s_x)})}

Results ==
    {JInt(1), None, SampleNote, JDict(<< <<s_namespace, JStr(s_x)>> >>),
     JDict(<< <<s_namespace, JStr(s_x)>>, <<s_results, JList(<<SampleNote>>)>> >>),
     JDict(<< <<s_namespace, JStr(s_x)>>, <<s_items, JList(<<SampleNote>>)>> >>),
     JDict(<< <<s_namespace, JStr(s_x)>>, <<s_results, JList(<<JInt(1)>>)>> >>)}
    \cup GlobalValues
    \cup {JDict(<< <<s_namespace, JStr(s_ok)>>, <<member, JList(<<n1, n2>>)>> >>) :
            member \in {s_results, s_items}, n1 \in SampleNotes, n2 \in SampleNotes}

FewEvents ==
    {Raise("ConnectError"), Raise("ReadTimeout"), Garbage(404),
     Reply(200, ErrorEnvelope), Reply(200, JDict(<< <<s_result, JInt(1)>> >>))}

s_jsonrpc == <<"j","s","o","n","r","p","c">>
s_2_0 == <<"2",".","0">>
s_1_0 == <<"1",".","0">>

(* the jsonrpc and id members of a response: as JSON-RPC 2.0 asks, with *)
(* the id of another request, with a null id, of another version        *)
Envelopes ==
    {<< <<s_jsonrpc, JStr(s_2_0)>>, <<s_id, JInt(1)>> >>,
     << <<s_jsonrpc, JStr(s_2_0)>>, <<s_id, JInt(99)>> >>,
     << <<s_jsonrpc, JStr(s_2_0)>>, <<s_id, None>> >>,
     << <<s_jsonrpc, JStr(s_1_0)>> >>,
     << <<s_id, JStr(s_x)>> >>}

FacadeEvents ==
    FewEvents
    \cup {Raise(e) : e \in {"ConnectTimeout", "WriteTimeout", "PoolTimeout"}}
    \cup {Reply(200, JDict(<< <<s_error, JDict(<< <<s_code, JInt(c)>>,
                                                    <<s_message, JStr(s_boom)>> >>)>> >>)) :
            c \in {-32601, -32602, -32603, -32001, -32002, -1}}
    \cup {Reply(200, JDict(<< <<s_result, x>> >>)) : x \in Results}
    \cup {Reply(200, JDict(envelope \o member)) :
            envelope \in Envelopes,
            member \in {<< <<s_result, x>> >> :
                          x \in {JDict(<< <<s_ok, JBool(TRUE)>> >>), SampleNote,
                                 JDict(<< <<s_namespace, JStr(s_x)>>,
                                          <<s_results, JList(<<SampleNote>>)>>,
                                          <<s_items, JList(<<SampleNote>>)>>,
                                          <<s_found, JBool(FALSE)>> >>)}}
                        \cup {<< <<s_error, JDict(<< <<s_code, JInt(-32001)>>,
                                                     <<s_message, JStr(s_boom)>> >>)>> >>}}

(* a typed operation called by the single caller *)
Facade ==
    \E inv \in FewInvocations, ev \in FewEvents : Perform(inv.op, inv.args, ev)

Next == CallRaw \/ get_config \/ Facade

Spec == Init /\ [][Next]_vars

-----------------------------------------------------------------------------
(* Several threads calling on one client.  _next_id is                     *)
(*     self._request_id += 1      (load the attribute, add, store it)      *)
(*     return self._request_id    (load the attribute again)               *)
(* and holds no lock, so a thread switch can fall between its steps.  The  *)
(* rest of _call works on locals; its post puts the envelope on the wire.  *)

_next_id_load(t) ==
    /\ pc[t] = "idle"
    /\ Len(ret[t]) < MaxThreadCalls
    /\ tmp' = [tmp EXCEPT ![t] = request_id]
    /\ pc' = [pc EXCEPT ![t] = "loaded"]
    /\ UNCHANGED <<request_id, sent, request, arg, args, event, outcome, prev_kind, calls, op, ret, tools, life, http>>

_next_id_store(t) ==
    /\ pc[t] = "loaded"
    /\ request_id' = tmp[t] + 1
    /\ pc' = [pc EXCEPT ![t] = "stored"]
    /\ UNCHANGED <<sent, request, arg, args, event, outcome, prev_kind, calls, op, tmp, ret, tools, life, http>>

_next_id_return(t) ==
    /\ pc[t] = "stored"
    /\ ret' = [ret EXCEPT ![t] = Append(@, request_id)]
    /\ pc' = [pc EXCEPT ![t] = "returned"]
    /\ UNCHANGED <<request_id, sent, request, arg, args, event, outcome, prev_kind, calls, op, tmp, tools, life, http>>

_call_post(t) ==
    /\ pc[t] = "returned"
    /\ LET body == request_body(ret[t][Len(ret[t])], "memory.get", None)
       IN  /\ sent' = Append(sent, body.id)
           /\ request' = body
           /\ http' = [verb |-> "POST", url |-> rpc_url(_base_url)]
    /\ pc' = [pc EXCEPT ![t] = "idle"]
    /\ UNCHANGED <<request_id, arg, args, event, outcome, prev_kind, calls, op, tmp, ret, tools, life>>

NextThreads ==
    \E t \in Threads :
        \/ _next_id_load(t)
        \/ _next_id_store(t)
        \/ _next_id_return(t)
        \/ _call_post(t)

ThreadSpec == Init /\ [][NextThreads]_vars

-----------------------------------------------------------------------------
(* Key transcoding on its own: the caller's params are drawn first, then   *)
(* one call sends them.                                                    *)

Scalars == {JInt(1), JStr(s_x)}

GenKeys == {s_group_id, s_groupId, s_created_at, s_metadata, s_value}

(* the JSON values nested at most d deep *)
RECURSIVE Values(_)
Values(d) ==
    IF d = 0 THEN Scalars
    ELSE LET sub == Values(d - 1)
         IN  Scalars
             \cup {JDict(<< <<k, x>> >>) : k \in GenKeys, x \in sub}
             \cup {JList(<<x>>) : x \in sub}

DeepParams == {JDict(<< <<k, x>> >>) : k \in GenKeys, x \in Values(MaxDepth)}

WideParams ==
    {JDict(<< <<k1, x1>>, <<k2, x2>> >>) :
        k1 \in {s_top_k, s_metadata}, k2 \in {s_base_url, s_value},
        x1 \in Values(1), x2 \in Values(1)}
    \cup {JDict(<< <<k, JList(<<x1, x2>>)>> >>) :
        k \in {s_api_key, s_value}, x1 \in Values(1), x2 \in Values(1)}

InitKeys ==
    /\ request_id = 0
    /\ sent = <<>>
    /\ request = NoRequest
    /\ arg \in DeepParams \cup WideParams
    /\ args = NoArgs
    /\ event = NoEvent
    /\ outcome = NoOutcome
    /\ prev_kind = "none"
    /\ calls = 0
    /\ op = "none"
    /\ pc = [t \in Threads |-> "idle"]
    /\ tmp = [t \in Threads |-> 0]
    /\ ret = [t \in Threads |-> <<>>]
    /\ tools = MEMORY_TOOLS
    /\ Constructed(Omitted, Omitted)
    /\ _client = 0
    /\ others = <<>>

CallPending ==
    /\ calls = 0
    /\ LET ev == Reply(200, JDict(<< <<s_result, JInt(1)>> >>))
           r  == _call("memory.get", arg, ev)
       IN  Invoke("_call", NoArgs, arg, ev, r, r.outcome)

KeySpec == InitKeys /\ [][CallPending]_vars

-----------------------------------------------------------------------------
(* The typed operations on their own: the caller's arguments are drawn     *)
(* first, then the one call is made.                                       *)

InitFacade ==
    /\ request_id = 0
    /\ sent = <<>>
    /\ request = NoRequest
    /\ arg = None
    /\ \E inv \in AllInvocations : op = inv.op /\ args = inv.args
    /\ event = NoEvent
    /\ outcome = NoOutcome
    /\ prev_kind = "none"
    /\ calls = 0
    /\ pc = [t \in Threads |-> "idle"]
    /\ tmp = [t \in Threads |-> 0]
    /\ ret = [t \in Threads |-> <<>>]
    /\ tools = MEMORY_TOOLS
    /\ Constructed(Omitted, Omitted)
    /\ _client = 0
    /\ others = <<>>

CallFacade ==
    /\ calls = 0
    /\ \E ev \in FacadeEvents : Perform(op, args, ev)

FacadeSpec == InitFacade /\ [][CallFacade]_vars

-----------------------------------------------------------------------------------------------------------------------------------------------------
(* The life of one client: construction, calls, close, the context manager *)

s_http_h == <<"h","t","t","p",":","/","/","h">>

BaseUrls ==
    {Omitted, JStr(s_http_h), JStr(s_http_h \o <<"/">>), JStr(s_http_h \o <<"/","/">>)}

Timeouts == {Omitted, JInt(5)}

Self == [self |-> TRUE]

InitLife ==
    /\ request_id = 0
    /\ sent = <<>>
    /\ request = NoRequest
    /\ arg = None
    /\ op = "__init__"
    /\ event = NoEvent
    /\ outcome = NoOutcome
    /\ prev_kind = "none"
    /\ calls = 0
    /\ pc = [t \in Threads |-> "idle"]
    /\ tmp = [t \in Threads |-> 0]
    /\ ret = [t \in Threads |-> <<>>]
    /\ tools = MEMORY_TOOLS
    /\ \E base_url \in BaseUrls, timeout \in Timeouts :
          /\ args = [base_url |-> base_url, timeout |-> timeout]
          /\ Constructed(base_url, timeout)
    /\ _client = 0
    /\ others = <<>>

LifeEvents ==
    {Raise("ConnectError"), Reply(200, ErrorEnvelope),
     Reply(200, JDict(<< <<s_result, JInt(1)>> >>))}

LifeCall ==
    /\ calls < MaxLifeCalls
    /\ \E inv \in {i \in FewInvocations : i.op = "get"}, ev \in LifeEvents :
          get(inv.args, ev)

(* httpx.Client.close() as a closed or open client takes it *)
httpx_close_raises_when_closed(closed) ==
    [is_closed |-> TRUE,
     outcome   |-> IF closed THEN RaiseExc("RuntimeError") ELSE Return(None)]

httpx_close(closed) == [is_closed |-> TRUE, outcome |-> Return(None)]

(* self._client.close(), as the body of close() and of __exit__ *)
Closing(name, out) ==
    /\ is_closed' = httpx_close(is_closed).is_closed
    /\ closes' = closes + 1
    /\ op' = name
    /\ outcome' = out
    /\ prev_kind' = outcome.kind
    /\ UNCHANGED <<request_id, sent, request, arg, args, event, calls, pc, tmp, ret,
                   tools, _base_url, _timeout, _client, others, http>>

close ==
    /\ closes < MaxCloses
    /\ Closing("close", httpx_close(is_closed).outcome)
    /\ UNCHANGED <<scope, pending>>

__enter__ ==
    /\ scope = "none"
    /\ scope' = "with"
    /\ op' = "__enter__"
    /\ outcome' = Return(Self)
    /\ prev_kind' = outcome.kind
    /\ UNCHANGED <<request_id, sent, request, arg, args, event, calls, pc, tmp, ret,
                   tools, _base_url, _timeout, is_closed, closes, pending, _client,
                   others, http>>

(* how the block of a with statement can be left: normally, with the *)
(* exception of its last call, or interrupted from outside           *)
Leaving ==
    {Return(None), RaiseExc("KeyboardInterrupt")}
        \cup (IF outcome.kind \in {"none", "result"} THEN {} ELSE {outcome})

(* __exit__ closes and returns None; the with statement then raises what *)
(* was in flight unless close raised or __exit__ returned a true value   *)
__exit__ ==
    /\ scope = "with"
    /\ \E leaving \in Leaving :
          LET closed == httpx_close(is_closed).outcome
              exit_ret == None
          IN  /\ pending' = leaving
              /\ Closing("__exit__",
                         IF closed.kind # "result" THEN closed
                         ELSE IF exit_ret = JBool(TRUE) THEN Return(None)
                         ELSE leaving)
    /\ scope' = "left"

LifeNext == LifeCall \/ close \/ __enter__ \/ __exit__

LifeSpec == InitLife /\ [][LifeNext]_vars

-----------------------------------------------------------------------------
(* The tool adapter (langchain_tools.py): one client for the whole process, *)
(* set by configure_memory_client and used by every tool                   *)

memory_search_top_k == 5
memory_list_recent_limit == 10

(* get_client() *)
get_client ==
    IF _client = 0 THEN RaiseExc("RuntimeError") ELSE Return([client |-> _client])

configure_memory_client_keeps_client(base_url, timeout) ==
    /\ _client < MaxConfigures
    /\ LET self == __init__(base_url, timeout)
       IN  IF _client = 0
           THEN /\ _client' = 1
                /\ _base_url' = self._base_url
                /\ _timeout' = self._timeout
                /\ request_id' = self._request_id
                /\ is_closed' = self.is_closed
                /\ closes' = 0
                /\ UNCHANGED others
           ELSE /\ _client' = _client + 1
                /\ others' = Append(others, httpx_close(is_closed).is_closed)
                /\ UNCHANGED <<_base_url, _timeout, request_id, is_closed, closes>>
    /\ scope' = "none"
    /\ pending' = NoOutcome
    /\ op' = "configure_memory_client"
    /\ args' = [base_url |-> base_url, timeout |-> timeout]
    /\ event' = NoEvent
    /\ outcome' = Return(None)
    /\ prev_kind' = outcome.kind
    /\ UNCHANGED <<sent, request, arg, calls, pc, tmp, ret, tools, http>>

configure_memory_client_leaves_open(base_url, timeout) ==
    /\ _client < MaxConfigures
    /\ LET self == __init__(base_url, timeout)
       IN  /\ others' = IF _client = 0 THEN others ELSE Append(others, is_closed)
           /\ _client' = _client + 1
           /\ _base_url' = self._base_url
           /\ _timeout' = self._timeout
           /\ request_id' = self._request_id
           /\ is_closed' = self.is_closed
    /\ closes' = 0
    /\ scope' = "none"
    /\ pending' = NoOutcome
    /\ op' = "configure_memory_client"
    /\ args' = [base_url |-> base_url, timeout |-> timeout]
    /\ event' = NoEvent
    /\ outcome' = Return(None)
    /\ prev_kind' = outcome.kind
    /\ UNCHANGED <<sent, request, arg, calls, pc, tmp, ret, tools, http>>

(* configure_memory_client(base_url, timeout): closes the client installed *)
(* before, if any, then installs a new one                                *)
configure_memory_client(base_url, timeout) ==
    /\ _client < MaxConfigures
    /\ LET self == __init__(base_url, timeout)
       IN  /\ others' = IF _client = 0 THEN others
                        ELSE Append(others, httpx_close(is_closed).is_closed)
           /\ _client' = _client + 1
           /\ _base_url' = self._base_url
           /\ _timeout' = self._timeout
           /\ request_id' = self._request_id
           /\ is_closed' = self.is_closed
    /\ closes' = 0
    /\ scope' = "none"
    /\ pending' = NoOutcome
    /\ op' = "configure_memory_client"
    /\ args' = [base_url |-> base_url, timeout |-> timeout]
    /\ event' = NoEvent
    /\ outcome' = Return(None)
    /\ prev_kind' = outcome.kind
    /\ UNCHANGED <<sent, request, arg, calls, pc, tmp, ret, tools, http>>

(* the call each tool makes on the client *)
Forward(name, a) ==
    CASE name = "memory_search" ->
           [op |-> "search",
            args |-> [project_id |-> a.project_id, query |-> a.query,
                      group_id |-> Default(a.group_id, None),
                      top_k |-> Default(a.top_k, JInt(memory_search_top_k)),
                      tags |-> None, since |-> None, until |-> None]]
      [] name = "memory_add_note" ->
           [op |-> "add_note",
            args |-> [project_id |-> a.project_id, group_id |-> a.group_id,
                      text |-> a.text, title |-> Default(a.title, None),
                      tags |-> Default(a.tags, None), source |-> None,
                      created_at |-> None, metadata |-> None]]
      [] name = "memory_get_note" ->
           [op |-> "get", args |-> [note_id |-> a.note_id]]
      [] name = "memory_list_recent" ->
           [op |-> "list_recent",
            args |-> [project_id |-> a.project_id,
                      group_id |-> Default(a.group_id, None),
                      limit |-> Default(a.limit, JInt(memory_list_recent_limit)),
                      tags |-> None]]
      [] name = "memory_upsert_global" ->
           [op |-> "upsert_global",
            args |-> [project_id |-> a.project_id, key |-> a.key, value |-> a.value,
                      updated_at |-> None]]
      [] name = "memory_get_global" ->
           [op |-> "get_global", args |-> [project_id |-> a.project_id, key |-> a.key]]

(* the params a typed operation builds from its arguments *)
ParamsOf(name, a) ==
    CASE name = "add_note" -> add_note_params(a)
      [] name = "search" -> search_params(a)
      [] name = "get" -> get_params(a)
      [] name = "list_recent" -> list_recent_params(a)
      [] name = "upsert_global" -> upsert_global_params(a)
      [] name = "get_global" -> get_global_params(a)

(* what a typed operation makes of the outcome of _call *)
DecodeOf(name, out) ==
    CASE name = "search" -> DecodeNotes(out, s_results)
      [] name = "list_recent" -> DecodeNotes(out, s_items)
      [] name = "get" -> DecodeNote(out)
      [] name = "get_global" -> DecodeGlobalValue(out)
      [] OTHER -> out

NoteAliases ==
    {<<s_project_id, s_projectId>>, <<s_group_id, s_groupId>>,
     <<s_created_at, s_createdAt>>}

GlobalValueAliases == {<<s_updated_at, s_updatedAt>>}

(* model.model_dump(by_alias=True) *)
model_dump(model, aliases) ==
    JDict([i \in 1..Len(model.dict) |->
             LET key == model.dict[i][1]
             IN  <<IF \E p \in aliases : p[1] = key
                   THEN (CHOOSE p \in aliases : p[1] = key)[2] ELSE key,
                   model.dict[i][2]>>])

(* json.dumps(x, ensure_ascii=False): the JSON text of x *)
dumps(x) == [json |-> x]

(* what a tool returns, given what the call on the client gave *)
ToolReturn(name, out) ==
    IF out.kind # "result" THEN out
    ELSE CASE name = "memory_search" ->
                LET ns == Item(out.result, s_results).list
                IN  Return(dumps(JList([i \in 1..Len(ns) |-> model_dump(ns[i], NoteAliases)])))
           [] name = "memory_list_recent" ->
                LET ns == Item(out.result, s_items).list
                IN  Return(dumps(JList([i \in 1..Len(ns) |-> model_dump(ns[i], NoteAliases)])))
           [] name = "memory_get_note" -> Return(dumps(model_dump(out.result, NoteAliases)))
           [] name = "memory_get_global" ->
                Return(dumps(model_dump(out.result, GlobalValueAliases)))
           [] OTHER -> Return(dumps(out.result))

(* one tool, called with arguments a, the transport answering ev *)
Tool(name, a, ev) ==
    /\ calls < MaxCalls
    /\ request_id < MaxToolCalls
    /\ IF get_client.kind # "result"
       THEN /\ op' = name
            /\ args' = a
            /\ event' = NoEvent
            /\ outcome' = get_client
            /\ prev_kind' = outcome.kind
            /\ calls' = calls + 1
            /\ UNCHANGED <<request_id, sent, request, arg, pc, tmp, ret, tools, life, http>>
       ELSE LET f == Forward(name, a)
                params == ParamsOf(f.op, f.args)
                r == _call("memory." \o f.op, params, ev)
            IN  Invoke(name, a, params, ev, r, ToolReturn(name, DecodeOf(f.op, r.outcome)))

ToolInvocations ==
    {[op |-> "memory_search",
      args |-> [project_id |-> JStr(s_x), query |-> JStr(s_x), group_id |-> Omitted,
                top_k |-> Omitted]],
     [op |-> "memory_add_note",
      args |-> [project_id |-> JStr(s_x), group_id |-> JStr(s_x), text |-> JStr(s_x),
                title |-> Omitted, tags |-> JList(<<JStr(s_x)>>)]],
     [op |-> "memory_get_note", args |-> [note_id |-> JStr(s_x)]],
     [op |-> "memory_list_recent",
      args |-> [project_id |-> JStr(s_x), group_id |-> JStr(s_x), limit |-> Omitted]],
     [op |-> "memory_upsert_global",
      args |-> [project_id |-> JStr(s_x), key |-> JStr(s_global_x), value |-> JInt(1)]],
     [op |-> "memory_get_global",
      args |-> [project_id |-> JStr(s_x), key |-> JStr(s_global_x)]]}

(* a failure, and for each tool a result its operation decodes *)
ToolEvents(name) ==
    {Raise("ConnectError"),
     Reply(200, JDict(<< <<s_result,
        CASE name = "memory_search" ->
               JDict(<< <<s_namespace, JStr(s_x)>>, <<s_results, JList(<<SampleNote>>)>> >>)
          [] name = "memory_list_recent" ->
               JDict(<< <<s_namespace, JStr(s_x)>>, <<s_items, JList(<<SampleNote>>)>> >>)
          [] name = "memory_get_note" -> SampleNote
          [] name = "memory_get_global" ->
               JDict(<< <<s_namespace, JStr(s_x)>>, <<s_found, JBool(FALSE)>> >>)
          [] OTHER -> JDict(<< <<s_id, JStr(s_x)>>, <<s_namespace, JStr(s_x)>> >>)>> >>))}

memory_search ==
    \E inv \in ToolInvocations, ev \in ToolEvents("memory_search") :
        inv.op = "memory_search" /\ Tool(inv.op, inv.args, ev)

memory_add_note ==
    \E inv \in ToolInvocations, ev \in ToolEvents("memory_add_note") :
        inv.op = "memory_add_note" /\ Tool(inv.op, inv.args, ev)

memory_get_note ==
    \E inv \in ToolInvocations, ev \in ToolEvents("memory_get_note") :
        inv.op = "memory_get_note" /\ Tool(inv.op, inv.args, ev)

memory_list_recent ==
    \E inv \in ToolInvocations, ev \in ToolEvents("memory_list_recent") :
        inv.op = "memory_list_recent" /\ Tool(inv.op, inv.args, ev)

memory_upsert_global ==
    \E inv \in ToolInvocations, ev \in ToolEvents("memory_upsert_global") :
        inv.op = "memory_upsert_global" /\ Tool(inv.op, inv.args, ev)

memory_get_global ==
    \E inv \in ToolInvocations, ev \in ToolEvents("memory_get_global") :
        inv.op = "memory_get_global" /\ Tool(inv.op, inv.args, ev)

Configure ==
    \E c \in {<<Omitted, Omitted>>, <<JStr(s_http_h \o <<"/">>), JInt(5)>>} :
        configure_memory_client(c[1], c[2])

(* get_client().close(), by the code that configured the tools *)
CallerCloses ==
    /\ _client # 0
    /\ close

InitTools ==
    /\ request_id = 0
    /\ sent = <<>>
    /\ request = NoRequest
    /\ arg = None
    /\ args = NoArgs
    /\ op = "import"
    /\ event = NoEvent
    /\ outcome = NoOutcome
    /\ prev_kind = "none"
    /\ calls = 0
    /\ pc = [t \in Threads |-> "idle"]
    /\ tmp = [t \in Threads |-> 0]
    /\ ret = [t \in Threads |-> <<>>]
    /\ tools = MEMORY_TOOLS
    /\ Constructed(Omitted, Omitted)
    /\ _client = 0
    /\ others = <<>>

(* the process ends: the module registers no exit handler and has no *)
(* teardown, so nothing is done to the installed client              *)
Exit ==
    /\ op' = "exit"
    /\ UNCHANGED <<request_id, sent, request, arg, args, event, outcome, prev_kind,
                   calls, pc, tmp, ret, tools, life, http>>

(* the process is running *)
Alive == op # "exit"

ToolNext ==
    \/ Alive /\ Configure
    \/ Alive /\ memory_search
    \/ Alive /\ memory_add_note
    \/ Alive /\ memory_get_note
    \/ Alive /\ memory_list_recent
    \/ Alive /\ memory_upsert_global
    \/ Alive /\ memory_get_global
    \/ Alive /\ CallerCloses
    \/ Alive /\ Exit

ToolSpec == InitTools /\ [][ToolNext]_vars

(* the process ends at some time; nothing makes it call close before *)
ToolFair == ToolSpec /\ WF_vars(Alive /\ Exit)

-----
(* Properties *)

Failures == {"connection", "timeout", "generic", "rpc"}

\* C1: in a sequence of sequential calls on one client the k-th call's
\* envelope carries id = k, whatever the earlier calls gave their callers;
\* no id is used twice.
C1_IdsCountFromOne ==
    /\ \A k \in 1..Len(sent) : sent[k] = k
    /\ calls > 0 => request.id = calls /\ request_id = calls

C1_Witness ==
    /\ calls = MaxCalls
    /\ prev_kind \in Failures
    /\ op = "get_config"
    /\ request.id = MaxCalls

\* C2: when several threads call on one client, no two calls in flight
\* (an id obtained from _next_id, the request not yet posted) hold the same
\* request id.
C2_InFlightIdsDistinct ==
    \A t1 \in Threads, t2 \in Threads :
        (t1 # t2 /\ pc[t1] = "returned" /\ pc[t2] = "returned")
            => ret[t1][Len(ret[t1])] # ret[t2][Len(ret[t2])]

\* C3: every invocation ends in a returned result, a connection failure, a
\* timeout, a generic transport failure or an RPC failure, for every
\* transport event and every response body.
C3_FiveOutcomes ==
    calls > 0 => outcome.kind \in {"result"} \cup Failures

\* C4: a 2xx response whose decoded body has an `error` member makes the
\* call fail with an RPC failure carrying the member's code (-32603 when it
\* has none), message ("Unknown error" when it has none) and data (null when
\* it has none), also when the body has a `result` member.
C4_ErrorMemberIsRPCFailure ==
    (/\ calls > 0
     /\ event.type = "response" /\ event.status \in 200..299 /\ event.parses
     /\ isinstance(event.body, "dict") /\ HasKey(event.body, s_error))
    => LET error == Item(event.body, s_error)
           member(k, default) ==
               IF isinstance(error, "dict") /\ HasKey(error, k)
               THEN Item(error, k) ELSE default
       IN  /\ outcome.kind = "rpc"
           /\ outcome.code = member(s_code, JInt(-32603))
           /\ outcome.message = member(s_message, JStr(s_unknown_error))
           /\ outcome.data = member(s_data, None)

(* the wire name of a caller-side key, as the interface lists them *)
CamelOf(key) ==
    CASE key = s_group_id   -> s_groupId
      [] key = s_top_k      -> s_topK
      [] key = s_created_at -> s_createdAt
      [] key = s_base_url   -> s_baseUrl
      [] key = s_api_key    -> s_apiKey
      [] OTHER              -> key

(* wire is caller with every key outside a metadata / value subtree        *)
(* replaced by its wire name, through mappings and sequences at any depth  *)
RECURSIVE Transcoded(_, _)
Transcoded(caller, wire) ==
    IF isinstance(caller, "dict")
    THEN /\ isinstance(wire, "dict")
         /\ Len(wire.dict) = Len(caller.dict)
         /\ \A i \in 1..Len(caller.dict) :
               /\ wire.dict[i][1] = CamelOf(caller.dict[i][1])
               /\ caller.dict[i][1] \notin {s_metadata, s_value}
                     => Transcoded(caller.dict[i][2], wire.dict[i][2])
    ELSE IF isinstance(caller, "list")
    THEN /\ isinstance(wire, "list")
         /\ Len(wire.list) = Len(caller.list)
         /\ \A i \in 1..Len(caller.list) : Transcoded(caller.list[i], wire.list[i])
    ELSE wire = caller

\* C5: in the params on the wire every key of every mapping reachable
\* through nested mappings and sequences at any depth (a mapping inside a
\* sequence inside a sequence too), outside metadata / value subtrees, is
\* the camelCase form of the caller's key; other values are unchanged.
C5_KeysCamelAtAnyDepth ==
    (calls > 0 /\ arg # None) => Transcoded(arg, request.params)

(* every subtree under a key metadata or value of caller is in wire, at    *)
(* the same place, unchanged                                               *)
RECURSIVE OpaqueKept(_, _)
OpaqueKept(caller, wire) ==
    IF isinstance(caller, "dict")
    THEN /\ isinstance(wire, "dict")
         /\ Len(wire.dict) = Len(caller.dict)
         /\ \A i \in 1..Len(caller.dict) :
               IF caller.dict[i][1] \in {s_metadata, s_value}
               THEN wire.dict[i] = caller.dict[i]
               ELSE OpaqueKept(caller.dict[i][2], wire.dict[i][2])
    ELSE IF isinstance(caller, "list")
    THEN /\ isinstance(wire, "list")
         /\ Len(wire.list) = Len(caller.list)
         /\ \A i \in 1..Len(caller.list) : OpaqueKept(caller.list[i], wire.list[i])
    ELSE TRUE

\* C6: the whole subtree under a key named metadata or value, at the top
\* level or at any depth, is on the wire identical to the caller's input,
\* the casing of the keys inside it included.
C6_OpaqueSubtreesKept ==
    (calls > 0 /\ arg # None) => OpaqueKept(arg, request.params)

C6_Witness ==
    /\ calls = 1
    /\ arg = JDict(<< <<s_group_id,
                        JDict(<< <<s_value, JDict(<< <<s_created_at, JInt(1)>> >>)>> >>)>> >>)
    /\ request.params =
           JDict(<< <<s_groupId,
                      JDict(<< <<s_value, JDict(<< <<s_created_at, JInt(1)>> >>)>> >>)>> >>)

\* C7: a call made without params has an envelope of exactly jsonrpc =
\* "2.0", id and method, with no params member; a call made with params
\* has an envelope with a params member.
C7_ParamsOmittedNotNull ==
    calls > 0 =>
        IF arg = None
        THEN DOMAIN request = {"jsonrpc", "id", "method"} /\ request.jsonrpc = "2.0"
        ELSE DOMAIN request = {"jsonrpc", "id", "method", "params"}

C7_Witness ==
    /\ op = "get_config"
    /\ arg = None
    /\ DOMAIN request = {"jsonrpc", "id", "method"}
    /\ request.method = "memory.get_config"

\* C8: every invocation sends exactly one HTTP request, whatever its
\* outcome: after n invocations exactly n requests have gone out, the last
\* of them the last invocation's.
C8_OneRequestPerCall ==
    /\ Len(sent) = calls
    /\ calls > 0 => sent[Len(sent)] = request.id

C8_Witness ==
    /\ calls = MaxCalls
    /\ prev_kind = "timeout"
    /\ outcome.kind = "connection"
    /\ Len(sent) = MaxCalls

\* C9: a response with a non-2xx status, whatever its body, or a 2xx
\* response whose body is not JSON, makes the call fail with the generic
\* transport failure.
C9_BadStatusOrBodyIsGeneric ==
    (/\ calls > 0
     /\ event.type = "response"
     /\ (event.status < 200 \/ event.status > 299 \/ ~event.parses))
    => outcome.kind = "generic" /\ outcome.exc = "MCPMemoryError"

C9_Witness ==
    /\ event = Reply(302, ErrorEnvelope)
    /\ outcome.kind = "generic"

\* C10: a socket or DNS level failure before any response (connection
\* refused, name resolution failure, another socket failure) makes the call
\* fail with the connection failure.
C10_SocketFailureIsConnection ==
    (/\ calls > 0
     /\ event.type = "raise"
     /\ "NetworkError" \in HttpxBases(event.exc))
    => outcome.kind = "connection"

\* C11: a deadline that runs out in any phase of the exchange (connecting,
\* writing, reading, waiting for a connection of the pool) makes the call
\* fail with the timeout condition.
C11_DeadlineIsTimeout ==
    (/\ calls > 0
     /\ event.type = "raise"
     /\ event.exc \in {"ConnectTimeout", "ReadTimeout", "WriteTimeout", "PoolTimeout"})
    => outcome.kind = "timeout"

C11_Witness ==
    /\ op = "search"
    /\ event = Raise("ConnectTimeout")
    /\ outcome.kind = "timeout"

(* the wire name of each argument, and the arguments an operation requires *)
WireKey ==
    [project_id |-> s_projectId, group_id |-> s_groupId, text |-> s_text,
     title |-> s_title, tags |-> s_tags, source |-> s_source,
     created_at |-> s_createdAt, metadata |-> s_metadata, query |-> s_query,
     top_k |-> s_topK, since |-> s_since, until |-> s_until, limit |-> s_limit,
     key |-> s_key, value |-> s_value, updated_at |-> s_updatedAt,
     provider |-> s_provider, model |-> s_model, base_url |-> s_baseUrl,
     api_key |-> s_apiKey]

RequiredArgs ==
    [add_note |-> {"project_id", "group_id", "text"},
     search |-> {"project_id", "query", "top_k"},
     list_recent |-> {"project_id"},
     upsert_global |-> {"project_id", "key", "value"}]

KeysOf(d) == {d.dict[i][1] : i \in 1..Len(d.dict)}

(* the arguments of the last call that the caller supplied *)
Supplied(required) == {f \in DOMAIN args : f \in required \/ args[f] # None}

\* C12: the params of add_note, search, list_recent and upsert_global hold
\* exactly the wire names of the required arguments and of the optional
\* arguments the caller supplied, each once; an optional argument left out
\* gives no key and no null value, and there is no namespace or score key.
C12_ParamsAreSuppliedArguments ==
    (calls = 1 /\ op \in DOMAIN RequiredArgs) =>
        /\ DOMAIN request = {"jsonrpc", "id", "method", "params"}
        /\ isinstance(request.params, "dict")
        /\ KeysOf(request.params) = {WireKey[f] : f \in Supplied(RequiredArgs[op])}
        /\ Len(request.params.dict) = Cardinality(Supplied(RequiredArgs[op]))
        /\ \A f \in DOMAIN args \ RequiredArgs[op] :
               HasKey(request.params, WireKey[f]) => Item(request.params, WireKey[f]) # None
        /\ s_namespace \notin KeysOf(request.params)
        /\ s_score \notin KeysOf(request.params)
        /\ op = "add_note" => request.method = "memory.add_note"

C12_Witness ==
    /\ calls = 1
    /\ op = "add_note"
    /\ args.title = None /\ args.tags # None /\ args.source = None
    /\ args.created_at = None /\ args.metadata # None
    /\ request.method = "memory.add_note"
    /\ KeysOf(request.params) = {s_projectId, s_groupId, s_text, s_tags, s_metadata}

\* C13: update sends params {id, patch}; patch holds exactly the fields the
\* caller supplied, under their wire names and with the caller's values.
C13_PatchHoldsSuppliedFields ==
    (calls = 1 /\ op = "update") =>
        /\ isinstance(request.params, "dict")
        /\ KeysOf(request.params) = {s_id, s_patch}
        /\ Len(request.params.dict) = 2
        /\ Item(request.params, s_id) = args.note_id
        /\ LET patch == Item(request.params, s_patch)
               fields == Supplied({}) \ {"note_id"}
           IN  /\ isinstance(patch, "dict")
               /\ KeysOf(patch) = {WireKey[f] : f \in fields}
               /\ Len(patch.dict) = Cardinality(fields)
               /\ \A f \in fields : Item(patch, WireKey[f]) = args[f]

C13_Witness ==
    /\ calls = 1
    /\ op = "update"
    /\ Supplied({}) = {"note_id", "title"}
    /\ Item(request.params, s_patch) = JDict(<< <<s_title, args.title>> >>)

\* C14: search always sends topK: the caller's top_k when given, whatever
\* the integer, and 5 when not.
C14_TopKAlwaysSent ==
    (calls = 1 /\ op = "search") =>
        /\ isinstance(request.params, "dict")
        /\ HasKey(request.params, s_topK)
        /\ Item(request.params, s_topK) =
               IF args.top_k = Omitted THEN JInt(5) ELSE args.top_k

C14_Witness ==
    /\ calls = 1
    /\ op = "search"
    /\ args.top_k = Omitted
    /\ Item(request.params, s_topK) = JInt(5)

\* C15: whenever the response to get_global says found = false, the decoded
\* GlobalValue has id, value and updated_at all null, whatever else the
\* response carries.
C15_NotFoundIsEmpty ==
    (/\ calls = 1
     /\ op = "get_global"
     /\ outcome.kind = "result"
     /\ Item(outcome.result, s_found) = JBool(FALSE))
    => /\ Item(outcome.result, s_id) = None
       /\ Item(outcome.result, s_value) = None
       /\ Item(outcome.result, s_updated_at) = None

(* the instant of dt in UTC, as YYYY-MM-DDTHH:MM:SSZ; a naive dt is UTC *)
UtcString(dt) ==
    LET shifted == dt.hour - dt.tzinfo.hours
        hour == IF shifted < 0 THEN shifted + 24
                ELSE IF shifted > 23 THEN shifted - 24 ELSE shifted
        day == IF shifted < 0 THEN dt.day - 1
               ELSE IF shifted > 23 THEN dt.day + 1 ELSE dt.day
    IN  Pad(dt.year, 4) \o <<"-">> \o Pad(dt.month, 2) \o <<"-">> \o Pad(day, 2)
        \o <<"T">> \o Pad(hour, 2) \o <<":">> \o Pad(dt.minute, 2)
        \o <<":">> \o Pad(dt.second, 2) \o <<"Z">>

\* C16: a structured timestamp given as created_at, since, until or
\* updated_at is sent as the string YYYY-MM-DDTHH:MM:SSZ of its instant in
\* UTC, also when it is aware with a non-zero offset; a string is sent
\* unchanged.
C16_TimestampsSentAsUTC ==
    calls = 1 =>
        \A f \in DOMAIN args \cap {"created_at", "since", "until", "updated_at"} :
            /\ isinstance(args[f], "datetime") =>
                   Item(request.params, WireKey[f]) = JStr(UtcString(args[f].datetime))
            /\ isinstance(args[f], "str") =>
                   Item(request.params, WireKey[f]) = args[f]

\* C17: set_config sends params {embedder: E}; E holds exactly the supplied
\* fields among provider, model, base_url and api_key under their wire
\* names, none of them null, and none of them appears outside embedder.
C17_EmbedderHoldsSuppliedFields ==
    (calls = 1 /\ op = "set_config") =>
        /\ isinstance(request.params, "dict")
        /\ KeysOf(request.params) = {s_embedder}
        /\ Len(request.params.dict) = 1
        /\ LET E == Item(request.params, s_embedder)
           IN  /\ isinstance(E, "dict")
               /\ KeysOf(E) = {WireKey[f] : f \in Supplied({})}
               /\ Len(E.dict) = Cardinality(Supplied({}))
               /\ \A f \in Supplied({}) : Item(E, WireKey[f]) = args[f]

C17_Witness ==
    /\ calls = 1
    /\ op = "set_config"
    /\ Supplied({}) = {"base_url", "api_key"}
    /\ KeysOf(Item(request.params, s_embedder)) = {s_baseUrl, s_apiKey}

\* C18: upsert_global sends exactly one request carrying the key as given,
\* whatever the key; when the server answers with error code -32003 the
\* caller gets an RPC failure whose is_invalid_key_prefix is true.
C18_KeyLeftToServer ==
    (calls = 1 /\ op = "upsert_global") =>
        /\ sent = <<1>>
        /\ request.method = "memory.upsert_global"
        /\ Item(request.params, s_key) = args.key
        /\ event = Reply(200, ErrorEnvelope) =>
               (outcome.kind = "rpc" /\ is_invalid_key_prefix(outcome))

C18_Witness ==
    /\ calls = 1
    /\ op = "upsert_global"
    /\ args.key = JStr(s_invalid_key)
    /\ sent = <<1>>
    /\ event = Reply(200, ErrorEnvelope)
    /\ outcome.kind = "rpc"
    /\ is_invalid_key_prefix(outcome)

(* the codes of section 6 of the specification, and the code each        *)
(* predicate of RPCError stands for                                      *)
KnownCodes == {-32601, -32602, -32603, -32001, -32002, -32003}

PredicateCode ==
    [is_invalid_params |-> -32602, is_method_not_found |-> -32601,
     is_not_found |-> -32001, is_api_key_missing |-> -32002,
     is_invalid_key_prefix |-> -32003]

TruePredicates(e) == {name \in DOMAIN Predicates(e) : Predicates(e)[name]}

\* C19 as stated: an RPC failure has one predicate for each of the six known
\* codes, true exactly when the code is that code; so a failure with a
\* known code has exactly one true predicate.
C19_PredicateForEachKnownCode ==
    (outcome.kind = "rpc" /\ outcome.code \in {JInt(c) : c \in KnownCodes})
    => Cardinality(TruePredicates(outcome)) = 1

\* C19 amended: an RPC failure has five predicates, for -32601, -32602,
\* -32001, -32002 and -32003 and none for -32603; each is true exactly when
\* the code is its code, so at most one is true, and none is for -32603
\* and for codes outside the list.
C19_FivePredicates ==
    outcome.kind = "rpc" =>
        /\ DOMAIN Predicates(outcome) = DOMAIN PredicateCode
        /\ \A name \in DOMAIN PredicateCode :
               Predicates(outcome)[name] <=> (outcome.code = JInt(PredicateCode[name]))
        /\ Cardinality(TruePredicates(outcome)) <= 1
        /\ outcome.code \notin {JInt(PredicateCode[name]) : name \in DOMAIN PredicateCode}
               => TruePredicates(outcome) = {}

C19_Witness ==
    /\ outcome.kind = "rpc"
    /\ outcome.code = JInt(-32001)
    /\ TruePredicates(outcome) = {"is_not_found"}

\* C20: MEMORY_TOOLS holds exactly seven tools, in this order: memory_search,
\* memory_add_note, memory_get_note, memory_update_note, memory_list_recent,
\* memory_upsert_global, memory_get_global.
C20_SevenTools ==
    tools = <<"memory_search", "memory_add_note", "memory_get_note",
             "memory_update_note", "memory_list_recent",
             "memory_upsert_global", "memory_get_global">>

(* C22: close is idempotent. Whenever close() has just run, or the with  *)
(* block has just been left, however often close ran before, the client *)
(* is closed and close did not raise: close() returns None and leaving  *)
(* the block passes on exactly what was in flight. A closed client      *)
(* stays closed.                                                        *)
C22_CloseIsIdempotent ==
    /\ op = "close" => is_closed /\ outcome = Return(None)
    /\ op = "__exit__" => is_closed /\ outcome = pending
    /\ closes > 0 => is_closed

(* closed directly, then once more by leaving the with block *)
C22_Witness ==
    op = "__exit__" /\ closes >= 2 /\ is_closed /\ outcome = Return(None)

(* the trailing slashes of a string, counted from its end *)
RECURSIVE TrailingSlashes(_)
TrailingSlashes(str) ==
    IF str = <<>> \/ str[Len(str)] # "/" THEN 0
    ELSE 1 + TrailingSlashes(SubSeq(str, 1, Len(str) - 1))

GivenBaseUrl ==
    IF args.base_url = Omitted
    THEN <<"h","t","t","p",":","/","/","l","o","c","a","l","h","o","s","t",":","8","7","6","5">>
    ELSE args.base_url.str

(* C24: construction stores the base URL (http://localhost:8765 when not *)
(* given) without its trailing slashes and the timeout (30 when not     *)
(* given); no step changes either; every request sent is a POST to the  *)
(* stored base URL followed by /rpc.                                    *)
C24_ConfigurationFixedAtConstruction ==
    /\ [](op = "__init__" =>
            /\ _base_url = SubSeq(GivenBaseUrl, 1,
                                  Len(GivenBaseUrl) - TrailingSlashes(GivenBaseUrl))
            /\ _timeout = IF args.timeout = Omitted THEN 30 ELSE args.timeout.int)
    /\ [][_base_url' = _base_url /\ _timeout' = _timeout]_vars
    /\ [][sent' # sent =>
            http' = [verb |-> "POST", url |-> _base_url \o <<"/","r","p","c">>]]_vars

(* a client constructed with a base URL ending in two slashes, no timeout given *)
C24_Witness ==
    /\ op = "__init__"
    /\ args = [base_url |-> JStr(s_http_h \o <<"/","/">>), timeout |-> Omitted]
    /\ _base_url = s_http_h
    /\ _timeout = 30

(* the operations that hand back the result of _call as it is *)
RawOps == {"_call", "add_note", "update", "set_config", "upsert_global"}

(* what a call comes to by its own response alone; "" where this says nothing *)
OwnKind(name, ev) ==
    IF ev.type = "raise"
    THEN IF ev.exc = "ConnectError" THEN "connection"
         ELSE IF ev.exc \in {"ConnectTimeout", "ReadTimeout", "WriteTimeout", "PoolTimeout"}
         THEN "timeout"
         ELSE ""
    ELSE IF ev.status \notin 200..299 \/ ~ev.parses THEN "generic"
    ELSE IF DOMAIN ev.body # {"dict"} THEN ""
    ELSE IF \E i \in DOMAIN ev.body.dict : ev.body.dict[i][1] = <<"e","r","r","o","r">>
    THEN ""
    ELSE IF name \in RawOps THEN "result"
    ELSE ""

(* C30: a failed call (connection, timeout, generic or RPC failure)      *)
(* advances the request-id counter by one and changes nothing else of   *)
(* the client; the call after a failed one is sent, with the next id,   *)
(* and succeeds or fails as its own response says.                      *)
C30_FailureLeavesClientUsable ==
    [][calls' = calls + 1 =>
         /\ outcome'.kind \in Failures =>
              /\ request_id' = request_id + 1
              /\ UNCHANGED <<_base_url, _timeout, is_closed>>
         /\ outcome.kind \in Failures =>
              /\ sent' = Append(sent, request_id + 1)
              /\ request'.id = request_id + 1
              /\ OwnKind(op', event') # "" => outcome'.kind = OwnKind(op', event')]_vars

(* a call that succeeded right after a failed one *)
C30_Witness ==
    /\ prev_kind \in Failures
    /\ outcome.kind = "result"
    /\ Len(sent) = calls
    /\ calls >= 2

ToolNames ==
    {"memory_search", "memory_add_note", "memory_get_note", "memory_list_recent",
     "memory_upsert_global", "memory_get_global"}

(* C21: before configure_memory_client has run, every tool (through       *)
(* get_client) fails with RuntimeError, no client exists and no request  *)
(* has been sent; once it has run, the installed client is the one the   *)
(* most recent configure call created, with that call's base URL and     *)
(* timeout, and no tool creates or replaces it.                          *)
C21_NoClientBeforeConfigure ==
    /\ [](_client = 0 =>
            /\ others = <<>>
            /\ sent = <<>>
            /\ http = [verb |-> "", url |-> <<>>]
            /\ op \in ToolNames => outcome.exc = "RuntimeError" /\ outcome.kind = "untyped")
    /\ [](op = "configure_memory_client" =>
            /\ _client = Len(others) + 1
            /\ _base_url = SubSeq(GivenBaseUrl, 1,
                                  Len(GivenBaseUrl) - TrailingSlashes(GivenBaseUrl))
            /\ _timeout = IF args.timeout = Omitted THEN 30 ELSE args.timeout.int)
    /\ [][op' \in ToolNames =>
            UNCHANGED <<_client, others, _base_url, _timeout>>]_vars

(* a tool was called before any configure_memory_client *)
C21_Witness ==
    /\ _client = 0
    /\ op = "memory_search"
    /\ calls > 0
    /\ outcome.exc = "RuntimeError"

C23_ConfiguredClientEventuallyClosed ==
    [](_client # 0 => <>is_closed)

(* the value of member k of a decoded body, null when b has no member k *)
MemberOr(b, k, default) ==
    IF DOMAIN b = {"dict"} /\ \E i \in DOMAIN b.dict : b.dict[i][1] = k
    THEN b.dict[CHOOSE i \in DOMAIN b.dict : b.dict[i][1] = k][2]
    ELSE default

NoMember(b, k) == MemberOr(b, k, [absent |-> TRUE]) = [absent |-> TRUE]

(* C25: for every 2xx response whose decoded body has no error member,  *)
(* _call returns the body's result member unchanged, and null when the  *)
(* body has no result member.                                           *)
C25_ResultReturnedUnchanged ==
    (/\ op = "_call"
     /\ event.type = "response"
     /\ event.status \in 200..299
     /\ event.parses
     /\ NoMember(event.body, <<"e","r","r","o","r">>))
        => outcome = Return(MemberOr(event.body, <<"r","e","s","u","l","t">>, None))

(* C26: search and list_recent keep the server's sequence of notes: the   *)
(* decoded list has the length and the order of the response's results  *)
(* or items member, and is empty when the response has no such member;  *)
(* the decoded namespace is the response's.                             *)
C26_SequencePreserved ==
    (/\ op \in {"search", "list_recent"}
     /\ outcome.kind = "result")
        => LET member  == IF op = "search" THEN <<"r","e","s","u","l","t","s">>
                          ELSE <<"i","t","e","m","s">>
               result  == MemberOr(event.body, <<"r","e","s","u","l","t">>, None)
               served  == MemberOr(result, member, JList(<<>>)).list
               decoded == MemberOr(outcome.result, member, None).list
           IN  /\ Len(decoded) = Len(served)
               /\ \A i \in DOMAIN served :
                    MemberOr(decoded[i], <<"i","d">>, None)
                        = MemberOr(served[i], <<"i","d">>, None)
               /\ MemberOr(outcome.result, <<"n","a","m","e","s","p","a","c","e">>, None)
                    = MemberOr(result, <<"n","a","m","e","s","p","a","c","e">>, None)

(* two different notes came back in the order the server sent them *)
C26_Witness ==
    /\ op = "search"
    /\ outcome.kind = "result"
    /\ LET decoded == MemberOr(outcome.result, <<"r","e","s","u","l","t","s">>, None).list
       IN  /\ Len(decoded) = 2
           /\ MemberOr(decoded[1], <<"i","d">>, None) = JStr(<<"o","k">>)
           /\ MemberOr(decoded[2], <<"i","d">>, None) = JStr(<<"x">>)

(* a decoded body without its jsonrpc and id members *)
WithoutEnvelope(b) ==
    IF DOMAIN b # {"dict"} THEN b
    ELSE [dict |-> SelectSeq(b.dict,
                     LAMBDA kv : kv[1] \notin {<<"j","s","o","n","r","p","c">>, <<"i","d">>})]

(* C28: what an operation gives its caller does not depend on the id or *)
(* jsonrpc member of the response: it is what the response without     *)
(* these members gives, whether the id is the request's, another one,  *)
(* null or missing.                                                    *)
C28_ResponseIdIgnored ==
    (event.type = "response" /\ event.parses /\ event.status \in 200..299)
        => outcome = DecodeOf(op, Unmarshal(WithoutEnvelope(event.body)))

(* a response with the id of another request was taken as the result *)
C28_Witness ==
    /\ op = "get"
    /\ event.type = "response"
    /\ MemberOr(event.body, <<"i","d">>, None) = JInt(99)
    /\ request.id = 1
    /\ outcome.kind = "result"

(* every key of x, at any depth, is free of underscores *)
RECURSIVE NoUnderscore(_)
NoUnderscore(x) ==
    IF DOMAIN x = {"dict"}
    THEN \A i \in DOMAIN x.dict :
            /\ \A j \in DOMAIN x.dict[i][1] : x.dict[i][1][j] # "_"
            /\ NoUnderscore(x.dict[i][2])
    ELSE IF DOMAIN x = {"list"}
    THEN \A i \in DOMAIN x.list : NoUnderscore(x.list[i])
    ELSE TRUE

(* C29: key transcoding is pure. The call leaves the caller's params as *)
(* they were, nested mappings and sequences included; params without   *)
(* an underscore in any key go out as they are; transcoding what was    *)
(* sent once more gives the same mapping.                               *)
C29_TranscodingIsPure ==
    /\ [][arg' = arg]_vars
    /\ [](calls > 0 =>
            /\ NoUnderscore(arg) => request.params = arg
            /\ _convert_keys_to_camel(request.params, DefaultSkipKeys) = request.params)

(* params with an underscore key inside a list inside a mapping were sent *)
C29_Witness ==
    /\ calls > 0
    /\ arg = JDict(<< <<s_groupId, JList(<<JDict(<< <<s_created_at, JInt(1)>> >>)>>)>> >>)
    /\ request.params # arg

====
